---- MODULE Spec2Model ----
(***************************************************************************)
(* hamster_lib / nark:                                                     *)
(*  - the timeline conflict resolver BaseFactManager.insert_forcefully     *)
(*    (src/hamster_lib/storage.py) together with the timeline queries it   *)
(*    calls and a caller that persists the edits it returns (Spec);        *)
(*  - the factoid parser parse_factoid (src/nark/helpers/parsing.py) and   *)
(*    Fact.get_serialized_string (ParserSpec);                             *)
(*  - BaseFactManager.save and the ongoing fact kept in the tmp file       *)
(*    (StoreSpec);                                                         *)
(*  - format_delta (src/nark/helpers/format_time.py) (FormatSpec).         *)
(*                                                                         *)
(* Instants are small integers, Python's None is NoneT.  A Python         *)
(* exception is the name of its class in the field exc ("none": no        *)
(* exception).  Every timeline query materialises fresh Fact objects, so  *)
(* two query results never alias.                                          *)
(***************************************************************************)
EXTENDS Integers, Sequences, FiniteSets, TLC

\* ------------------------------------------------------------------ bounds
MaxTime == 6
MaxInitFacts == 2
MaxCalls == 2

\* --------------------------------------------------------------- constants
NoneT == 0
result_limit == 10

Times == 1..MaxTime
Intervals == {iv \in Times \X Times : iv[1] < iv[2]}

\* Fact.__init__: a stored fact is neither deleted nor dirty.  deleted,
\* dirty_reasons and split_from are the attributes insert_forcefully writes
\* (storage.py) and the tests read (fact.deleted, fact.split_from).
Fact(pk, start, end) ==
    [pk |-> pk, start |-> start, end |-> end, activity |-> "stored",
     deleted |-> FALSE, dirty_reasons |-> {}, split_from |-> NoneT]

\* The fact being inserted: no identity yet, either boundary may be None.
NewFact(start, end) ==
    [pk |-> NoneT, start |-> start, end |-> end, activity |-> "new",
     deleted |-> FALSE, dirty_reasons |-> {}, split_from |-> NoneT]

NewFacts ==
    {NewFact(s, e) : s \in Times \cup {NoneT}, e \in Times \cup {NoneT}}

\* Two facts overlap when their interiors intersect; touching is allowed.
Overlap(f, g) == f.start < g.end /\ g.start < f.end

NonOverlapping(tl) ==
    \A f \in tl : \A g \in tl : (f # g) => ~Overlap(f, g)

\* ------------------------------------------------------- timeline queries
Ok(val) == [exc |-> "none", val |-> val]
Raise(exc) == [exc |-> exc, val |-> <<>>]

RECURSIVE OrderByStart(_)
OrderByStart(S) ==
    IF S = {} THEN <<>>
    ELSE LET first == CHOOSE f \in S :
                        \A g \in S : f.start < g.start
                                     \/ (f.start = g.start /\ f.pk <= g.pk)
         IN <<first>> \o OrderByStart(S \ {first})

surrounding(tl, fact_time) ==
    LET found == {f \in tl : f.start < fact_time /\ fact_time < f.end}
    IN IF Cardinality(found) > 1 THEN Raise("IntegrityError")
       ELSE Ok(OrderByStart(found))

starting_at(tl, fact) ==
    LET found == {f \in tl : f.start = fact.start}
    IN IF Cardinality(found) > 1 THEN Raise("IntegrityError")
       ELSE Ok(OrderByStart(found))

ending_at(tl, fact) ==
    LET found == {f \in tl : f.end = fact.end}
    IN IF Cardinality(found) > 1 THEN Raise("IntegrityError")
       ELSE Ok(OrderByStart(found))

RefTimeBefore(fact) == IF fact.end # NoneT THEN fact.end ELSE fact.start
RefTimeAfter(fact) == IF fact.start # NoneT THEN fact.start ELSE fact.end

antecedent(tl, fact) ==
    LET ref == RefTimeBefore(fact)
        before == {f \in tl : f.end <= ref}
        nearest == {f \in before : \A g \in before : g.end <= f.end}
    IN IF ref = NoneT THEN Raise("ValueError")
       ELSE IF nearest = {} THEN Ok(<<>>)
       ELSE Ok(<<OrderByStart(nearest)[Cardinality(nearest)]>>)

subsequent(tl, fact) ==
    LET ref == RefTimeAfter(fact)
        after == {f \in tl : f.start >= ref}
        nearest == {f \in after : \A g \in after : f.start <= g.start}
    IN IF ref = NoneT THEN Raise("ValueError")
       ELSE IF nearest = {} THEN Ok(<<>>)
       ELSE Ok(<<OrderByStart(nearest)[1]>>)

strictly_during(tl, start, end) ==
    LET found == {f \in tl : start < f.start /\ f.end < end}
    IN IF Cardinality(found) > result_limit THEN Raise("OverflowError")
       ELSE Ok(OrderByStart(found))

\* ------------------------------------------------------ insert_forcefully
\* (fact, copy.deepcopy(fact)): the queried object and its pre-edit copy.
Pair(f) == [kind |-> "pair", conflict |-> f, original |-> f]

\* strictly_during's results join the list as bare Fact objects.
Bare(f) == [kind |-> "fact", conflict |-> f, original |-> f]

Pairs(facts) == [i \in DOMAIN facts |-> Pair(facts[i])]
Bares(facts) == [i \in DOMAIN facts |-> Bare(facts[i])]

Found(fact, conflicts, exc) ==
    [fact |-> fact, conflicts |-> conflicts, exc |-> exc]

\* Variant: the inferred start is taken from the antecedent's start.
set_start_from_antecedent_start(tl, fact) ==
    LET q == antecedent(tl, fact)
    IN IF q.exc # "none" THEN Found(fact, <<>>, q.exc)
       ELSE IF q.val = <<>> THEN Found(fact, <<>>, "ValueError")
       ELSE IF ~(q.val[1].end < fact.end)
            THEN Found(fact, <<>>, "AssertionError")
       ELSE Found([fact EXCEPT !.start = q.val[1].start], <<>>, "none")

\* Variant: the inferred start is the new fact's own end.
set_start_per_antecedent_degenerate(tl, fact) ==
    LET q == antecedent(tl, fact)
    IN IF q.exc # "none" THEN Found(fact, <<>>, q.exc)
       ELSE IF q.val = <<>> THEN Found(fact, <<>>, "ValueError")
       ELSE Found([fact EXCEPT !.start = fact.end], <<>>, "none")

set_start_per_antecedent(tl, fact) ==
    LET q == antecedent(tl, fact)
    IN IF q.exc # "none" THEN Found(fact, <<>>, q.exc)
       ELSE IF q.val = <<>> THEN Found(fact, <<>>, "ValueError")
       ELSE IF ~(q.val[1].end < fact.end)
            THEN Found(fact, <<>>, "AssertionError")
       ELSE Found([fact EXCEPT !.start = q.val[1].end], <<>>, "none")

\* Variant: with no subsequent fact the end is guessed (the latest instant)
\* instead of raising.
set_end_guessing_now(tl, fact) ==
    LET q == subsequent(tl, fact)
    IN IF q.exc # "none" THEN Found(fact, <<>>, q.exc)
       ELSE IF q.val = <<>>
            THEN Found([fact EXCEPT !.end = MaxTime + 1], <<>>, "none")
       ELSE IF ~(q.val[1].start > fact.start)
            THEN Found(fact, <<>>, "AssertionError")
       ELSE Found([fact EXCEPT !.end = q.val[1].start], <<>>, "none")

set_end_per_subsequent(tl, fact) ==
    LET q == subsequent(tl, fact)
    IN IF q.exc # "none" THEN Found(fact, <<>>, q.exc)
       ELSE IF q.val = <<>> THEN Found(fact, <<>>, "ValueError")
       ELSE IF ~(q.val[1].start > fact.start)
            THEN Found(fact, <<>>, "AssertionError")
       ELSE Found([fact EXCEPT !.end = q.val[1].start], <<>>, "none")

\* Variant: the start is inferred without testing that it is unset.
inspect_time_boundary_always_infers(tl, fact, ref_time) ==
    IF ref_time = "start"
    THEN set_start_per_antecedent(tl, fact)
    ELSE IF fact.end = NoneT
         THEN set_end_per_subsequent(tl, fact)
         ELSE LET q == ending_at(tl, fact)
              IN Found(fact, Pairs(q.val), q.exc)

\* Variant: with start set, the edge lookup is made at the new fact's end.
inspect_time_boundary_far_edge(tl, fact, ref_time) ==
    IF ref_time = "start"
    THEN IF fact.start = NoneT
         THEN set_start_per_antecedent(tl, fact)
         ELSE LET q == starting_at(tl, [fact EXCEPT !.start = fact.end])
              IN Found(fact, Pairs(q.val), q.exc)
    ELSE IF fact.end = NoneT
         THEN set_end_per_subsequent(tl, fact)
         ELSE LET q == ending_at(tl, fact)
              IN Found(fact, Pairs(q.val), q.exc)

inspect_time_boundary(tl, fact, ref_time) ==
    IF ref_time = "start"
    THEN IF fact.start = NoneT
         THEN set_start_per_antecedent(tl, fact)
         ELSE LET q == starting_at(tl, fact)
              IN Found(fact, Pairs(q.val), q.exc)
    ELSE IF fact.end = NoneT
         THEN set_end_per_subsequent(tl, fact)
         ELSE LET q == ending_at(tl, fact)
              IN Found(fact, Pairs(q.val), q.exc)

\* Variant: an integrity error of surrounding is taken for "nothing found".
find_conflict_swallowing(tl, fact, ref_time) ==
    LET fact_time == IF ref_time = "start" THEN fact.start ELSE fact.end
    IN IF fact_time # NoneT
       THEN LET q == surrounding(tl, fact_time)
            IN IF q.exc = "none" /\ q.val # <<>>
               THEN Found(fact, Pairs(q.val), "none")
               ELSE inspect_time_boundary(tl, fact, ref_time)
       ELSE inspect_time_boundary(tl, fact, ref_time)

find_conflict(tl, fact, ref_time) ==
    LET fact_time == IF ref_time = "start" THEN fact.start ELSE fact.end
    IN IF fact_time # NoneT
       THEN LET q == surrounding(tl, fact_time)
            IN IF q.exc # "none" THEN Found(fact, <<>>, q.exc)
               ELSE IF q.val # <<>> THEN Found(fact, Pairs(q.val), "none")
               ELSE inspect_time_boundary(tl, fact, ref_time)
       ELSE inspect_time_boundary(tl, fact, ref_time)

\* Outcome of resolving one conflict: the conflict object as it is left,
\* what was appended to the local list resolved, and the exception.
Resolution(conflict, appended, exc) ==
    [conflict |-> conflict, appended |-> appended, exc |-> exc]

resolve_fact_starts_before(fact, conflict) ==
    IF fact.end >= conflict.end
    THEN LET edited == [conflict EXCEPT
                          !.deleted = TRUE,
                          !.dirty_reasons = @ \cup {"deleted"}]
         IN Resolution(edited, <<edited>>, "none")
    ELSE IF ~(conflict.start < fact.end)
         THEN Resolution(conflict, <<>>, "AssertionError")
    ELSE LET edited == [conflict EXCEPT
                          !.start = fact.end,
                          !.dirty_reasons = @ \cup {"start"}]
         IN Resolution(edited, <<edited>>, "none")

resolve_fact_ends_after(fact, conflict) ==
    IF ~(fact.start < conflict.end)
    THEN Resolution(conflict, <<>>, "AssertionError")
    ELSE LET edited == [conflict EXCEPT
                          !.end = fact.start,
                          !.dirty_reasons = @ \cup {"end"}]
         IN Resolution(edited, <<edited>>, "none")

resolve_fact_split_prior(fact, conflict) ==
    [conflict EXCEPT !.end = fact.start, !.dirty_reasons = @ \cup {"end"}]

resolve_fact_split_after(fact, conflict) ==
    [conflict EXCEPT !.start = fact.end, !.dirty_reasons = @ \cup {"start"}]

resolve_fact_is_inside(fact, conflict) ==
    Resolution(conflict,
               <<resolve_fact_split_prior(fact, conflict),
                 resolve_fact_split_after(fact, conflict)>>,
               "none")

resolve_fact_conflict(fact, conflict) ==
    IF fact.start <= conflict.start
    THEN resolve_fact_starts_before(fact, conflict)
    ELSE IF fact.end >= conflict.end
    THEN resolve_fact_ends_after(fact, conflict)
    ELSE resolve_fact_is_inside(fact, conflict)

\* Variant: the tuple holds the queried object twice, no deep copy.
edit_in_place_aliased(conflicts, i, edited) ==
    [conflicts EXCEPT ![i].conflict = edited, ![i].original = edited]

\* The resolution steps assign to the attributes of conflict, the first
\* member of the i-th tuple: the object the timeline query returned.  The
\* second member, the deep copy, is a separate object and keeps its value.
edit_in_place(conflicts, i, edited) ==
    [conflicts EXCEPT ![i].conflict = edited]

\* The loop of resolve_overlapping from element i on.  Unpacking a bare
\* Fact into (conflict, original) raises TypeError; "if conflict.pk in
\* seen: next" evaluates the builtin and falls through.
RECURSIVE resolve_from(_, _, _, _, _)
resolve_from(fact, conflicts, i, seen, resolved) ==
    IF i > Len(conflicts)
    THEN [conflicts |-> conflicts, resolved |-> resolved, exc |-> "none"]
    ELSE IF conflicts[i].kind # "pair"
    THEN [conflicts |-> conflicts, resolved |-> resolved, exc |-> "TypeError"]
    ELSE IF ~(conflicts[i].conflict.pk > 0)
    THEN [conflicts |-> conflicts, resolved |-> resolved,
          exc |-> "AssertionError"]
    ELSE LET r == resolve_fact_conflict(fact, conflicts[i].conflict)
             edited == edit_in_place(conflicts, i, r.conflict)
         IN IF r.exc # "none"
            THEN [conflicts |-> edited, resolved |-> resolved, exc |-> r.exc]
            ELSE resolve_from(fact, edited, i + 1,
                              seen \cup {conflicts[i].conflict.pk},
                              resolved \o r.appended)

resolve_overlapping(fact, conflicts) ==
    resolve_from(fact, conflicts, 1, {}, <<>>)

\* What one call leaves behind: the exception (or "none"), new_fact as the
\* call left it, the list conflicts as the call left it, the local list
\* resolved, and the value returned to the caller.
Call(exc, fact, conflicts, resolved) ==
    [exc |-> exc, fact |-> fact, conflicts |-> conflicts,
     resolved |-> resolved,
     returned |-> IF exc = "none" THEN conflicts ELSE <<>>]

during_both_set(tl, fact) ==
    IF fact.start # NoneT /\ fact.end # NoneT
    THEN strictly_during(tl, fact.start, fact.end)
    ELSE Ok(<<>>)

insert_forcefully(tl, fact) ==
    LET c1 == find_conflict(tl, fact, "start")
    IN IF c1.exc # "none" THEN Call(c1.exc, c1.fact, <<>>, <<>>)
       ELSE
       LET c2 == find_conflict(tl, c1.fact, "end")
       IN IF c2.exc # "none"
          THEN Call(c2.exc, c2.fact, c1.conflicts, <<>>)
          ELSE
          LET q == during_both_set(tl, c2.fact)
              found == c1.conflicts \o c2.conflicts
          IN IF q.exc # "none" THEN Call(q.exc, c2.fact, found, <<>>)
             ELSE
             LET r == resolve_overlapping(c2.fact, found \o Bares(q.val))
             IN Call(r.exc, c2.fact, r.conflicts, r.resolved)

\* ------------------------------------------------------- factoid strings
\* A Python str is a sequence of symbols: a symbol is one character, or one
\* whole word the parser only ever treats as a unit (a time expression, a
\* date-to-date separator word).  None is NoneS; '' is <<>>.
NoneS == <<"None">>
Truthy(s) == s # NoneS /\ s # <<>>

IsSpace(c) == c = " "

DATE_TO_DATE_SEPARATORS == {"to", "until", "-"}
FACT_METADATA_SEPARATORS == {",", ":"}
ACTEGORY_SEP == "@"
hash_stamps == <<"#", "@">>
HashStamps == {hash_stamps[i] : i \in DOMAIN hash_stamps}

Min(S) == CHOOSE x \in S : \A y \in S : x <= y
Tail_from(s, i) == SubSeq(s, i, Len(s))

\* str.strip()
RECURSIVE lstrip(_)
lstrip(s) ==
    IF s # <<>> /\ IsSpace(Head(s)) THEN lstrip(Tail(s)) ELSE s

RECURSIVE rstrip(_)
rstrip(s) ==
    IF s # <<>> /\ IsSpace(s[Len(s)])
    THEN rstrip(SubSeq(s, 1, Len(s) - 1)) ELSE s

strip(s) == rstrip(lstrip(s))

\* re.split of a pattern without groups whose matches start at the
\* positions `starts` and are `width` symbols wide; maxsplit 0 is no limit.
RECURSIVE SplitFrom(_, _, _, _, _)
SplitFrom(s, from, starts, width, left) ==
    LET later == {i \in starts : i >= from}
    IN IF later = {} \/ left = 0
       THEN <<Tail_from(s, from)>>
       ELSE <<SubSeq(s, from, Min(later) - 1)>>
              \o SplitFrom(s, Min(later) + width, starts, width, left - 1)

re_split(s, starts, width, maxsplit) ==
    SplitFrom(s, 1, starts, width, IF maxsplit = 0 THEN Len(s) + 1 ELSE maxsplit)

\* re_item_sep = (?:,|:)(?=\s|$)
re_item_sep_at(s, i) ==
    /\ s[i] \in FACT_METADATA_SEPARATORS
    /\ (i = Len(s) \/ IsSpace(s[i + 1]))

re_item_sep_split(s, maxsplit) ==
    re_split(s, {i \in DOMAIN s : re_item_sep_at(s, i)}, 1, maxsplit)

\* re_item_sep.sub('', s)
re_item_sep_sub(s) ==
    SelectSeq([i \in DOMAIN s |-> IF re_item_sep_at(s, i) THEN "" ELSE s[i]],
              LAMBDA c : c # "")

\* RE_DATE_TO_DATE_SEP = \s(to|until|\-)\s
RE_DATE_TO_DATE_SEP_at(s, i) ==
    /\ i + 2 <= Len(s)
    /\ IsSpace(s[i])
    /\ s[i + 1] \in DATE_TO_DATE_SEPARATORS
    /\ IsSpace(s[i + 2])

RE_DATE_TO_DATE_SEP_match(s) == 1 \in DOMAIN s /\ RE_DATE_TO_DATE_SEP_at(s, 1)

\* RE_DATE_TO_DATE_SEP.split(s, 1): the pattern has a group, so the match's
\* separator is the middle part.
RE_DATE_TO_DATE_SEP_split(s) ==
    LET starts == {i \in DOMAIN s : RE_DATE_TO_DATE_SEP_at(s, i)}
    IN IF starts = {} THEN <<s>>
       ELSE <<SubSeq(s, 1, Min(starts) - 1),
              <<s[Min(starts) + 1]>>,
              Tail_from(s, Min(starts) + 3)>>

\* RE_SPLIT_CAT_AND_TAGS = \s+[#@](?=\S), matched at the start of s.
RE_SPLIT_CAT_AND_TAGS_match(s) ==
    \E k \in DOMAIN s :
        /\ \A j \in 1..k : IsSpace(s[j])
        /\ k + 2 <= Len(s)
        /\ s[k + 1] \in HashStamps
        /\ ~IsSpace(s[k + 2])

\* RE_SPLIT_TAGS_AND_TAGS = (?<!\S)[#@](?=\S)
RE_SPLIT_TAGS_AND_TAGS_at(s, i) ==
    /\ s[i] \in HashStamps
    /\ (i = 1 \/ IsSpace(s[i - 1]))
    /\ i + 1 <= Len(s)
    /\ ~IsSpace(s[i + 1])

RE_SPLIT_TAGS_AND_TAGS_split(s, maxsplit) ==
    re_split(s, {i \in DOMAIN s : RE_SPLIT_TAGS_AND_TAGS_at(s, i)}, 1, maxsplit)

\* str.index: the first position of c in s, 0 when there is none (Python
\* raises ValueError; the one caller turns that into -1 or a parse error).
index(s, c) ==
    LET at == {i \in DOMAIN s : s[i] = c}
    IN IF at = {} THEN 0 ELSE Min(at)

\* ------------------------------------------------------ time expressions
\* Instants are seconds since the midnight that starts "today".  A
\* datetime.datetime is DtObj(at); a Python str in a datetime attribute is
\* DtStr(text); None is DtNone.
SecondsPerMinute == 60

DtNone == [kind |-> "None", text |-> <<>>, at |-> 0]
DtStr(text) == [kind |-> "str", text |-> text, at |-> 0]
DtObj(at) == [kind |-> "datetime", text |-> <<>>, at |-> at]
TruthyDt(d) == d.kind = "datetime" \/ (d.kind = "str" /\ d.text # <<>>)

\* The absolute date-times written to the minute, '%Y-%m-%d %H:%M': the
\* i-th text is minute i of today.
StampText ==
    <<"2016-02-01 00:01", "2016-02-01 00:02", "2016-02-01 00:03",
      "2016-02-01 00:04", "2016-02-01 00:05">>
Stamps == {StampText[i] : i \in DOMAIN StampText}
DateOnly == "2016-02-01"
ClockTimes == {"12:00", "14:00"}
Relatives == {"-7"}
Friendlies == {"yesterday"}

\* datetime.strftime('%Y-%m-%d %H:%M'): the seconds are dropped.
strftime(at) == StampText[at \div SecondsPerMinute]

\* HamsterTimeSpec.discern: a relative offset, a clock time or an absolute
\* date-time at the front of the text, optionally followed by one item
\* separator, and then whitespace or the end of the text.  rest keeps that
\* whitespace (parse_datetimes_easy_both matches '\s(to|until|-)\s' on it).
type_of(word) ==
    IF word \in Relatives THEN "relative"
    ELSE IF word \in ClockTimes THEN "clock_time"
    ELSE IF word \in Stamps \cup {DateOnly} THEN "datetime"
    ELSE "None"

Discerned(dt, type_dt, sep, rest) ==
    [dt |-> dt, type_dt |-> type_dt, sep |-> sep, rest |-> rest]

discern(hamster_time) ==
    LET s == hamster_time
        after == IF Len(s) >= 2 /\ s[2] \in FACT_METADATA_SEPARATORS
                 THEN 3 ELSE 2
    IN IF s = <<>> \/ type_of(s[1]) = "None"
          \/ (after <= Len(s) /\ ~IsSpace(s[after]))
       THEN Discerned("None", "None", NoneS, NoneS)
       ELSE Discerned(s[1], type_of(s[1]),
                      SubSeq(s, 2, after - 1), Tail_from(s, after))

has_time_of_day(raw_dt) == raw_dt # DateOnly

\* parse_datetime_iso8601: the instant an absolute date-time text names;
\* with must=False, None for any other text.
parse_datetime_iso8601(raw) ==
    IF Len(raw) = 1 /\ raw[1] \in Stamps
    THEN DtObj(SecondsPerMinute
                 * (CHOOSE i \in DOMAIN StampText : StampText[i] = raw[1]))
    ELSE IF raw = <<DateOnly>> THEN DtObj(0)
    ELSE DtNone

\* dateparser.parse: the natural-language fallback.  It reads one time
\* expression, surrounding whitespace ignored, and gives None for anything
\* it does not recognise.
dateparser_parse(datepart) ==
    LET word == strip(datepart)
    IN IF Len(word) # 1 THEN DtNone
       ELSE IF type_of(word[1]) = "datetime" THEN parse_datetime_iso8601(word)
       ELSE IF word[1] = "12:00" THEN DtObj(12 * 60 * SecondsPerMinute)
       ELSE IF word[1] = "14:00" THEN DtObj(14 * 60 * SecondsPerMinute)
       ELSE IF word[1] \in Friendlies THEN DtObj(0 - 24 * 60 * SecondsPerMinute)
       ELSE DtNone

\* ----------------------------------------------------------------- Parser
\* The parser's result attributes.  tags is None until consume_tags sets a
\* list; both read as the empty list, and tags is <<>> for either.
ParserExceptions ==
    {"ParserMissingDatetimeOneException", "ParserMissingDatetimeTwoException",
     "ParserMissingSeparatorActivity", "ParserMissingActivityException"}

TimeHints ==
    {"verify_none", "verify_start", "verify_end", "verify_both",
     "verify_after", "verify_then", "verify_still"}

reset_result ==
    [datetime1 |-> DtNone, datetime2 |-> DtNone,
     raw_datetime1 |-> NoneS, raw_datetime2 |-> NoneS,
     type_datetime1 |-> "None", type_datetime2 |-> "None",
     activity_name |-> NoneS, category_name |-> NoneS,
     tags |-> <<>>, description |-> NoneS, warnings |-> <<>>]

\* What a step hands back: the parser, the text still to read, whether a
\* category is expected, and the exception raised ("none": it returned).
Step(p, rest, expect_category, exc) ==
    [p |-> p, rest |-> rest, expect_category |-> expect_category, exc |-> exc]

set_datetime(p, datetime_attr, dt, type_dt) ==
    IF datetime_attr = "datetime1"
    THEN [p EXCEPT !.datetime1 = dt, !.type_datetime1 = type_dt]
    ELSE [p EXCEPT !.datetime2 = dt, !.type_datetime2 = type_dt]

warn_if_datetime_missing_clock_time(p, raw_dt) ==
    IF has_time_of_day(raw_dt) THEN p
    ELSE [p EXCEPT !.warnings = Append(@, "missing the time of day")]

must_parse_datetime_from_rest(p, datetime_rest, datetime_attr, ok_if_missing) ==
    LET d == discern(datetime_rest)
    IN IF d.dt # "None"
       THEN IF d.type_dt = "datetime"
            THEN Step(set_datetime(
                          warn_if_datetime_missing_clock_time(p, d.dt),
                          datetime_attr, parse_datetime_iso8601(<<d.dt>>),
                          d.type_dt),
                      d.rest, FALSE, "none")
            ELSE Step(set_datetime(p, datetime_attr, DtStr(<<d.dt>>), d.type_dt),
                      d.rest, FALSE, "none")
       ELSE IF datetime_attr = "datetime1"
       THEN Step(p, NoneS, FALSE, "ParserMissingDatetimeOneException")
       ELSE IF ~ok_if_missing
       THEN Step(p, NoneS, FALSE, "ParserMissingDatetimeTwoException")
       ELSE Step(p, NoneS, FALSE, "none")

parse_datetimes_easy_both(p, rest, strictly_two) ==
    LET one == must_parse_datetime_from_rest(p, rest, "datetime1", FALSE)
    IN IF one.exc # "none" THEN one
       ELSE IF RE_DATE_TO_DATE_SEP_match(one.rest)
       THEN LET parts == RE_DATE_TO_DATE_SEP_split(one.rest)
                two == must_parse_datetime_from_rest(
                           one.p, parts[3], "datetime2", ~strictly_two)
            IN IF two.exc # "none" THEN two
               ELSE IF two.rest # NoneS THEN two
               ELSE Step(two.p, one.rest, FALSE, "none")
       ELSE IF strictly_two
       THEN Step(one.p, one.rest, FALSE, "ParserMissingDatetimeTwoException")
       ELSE one

parse_datetimes_easy(p, flat, time_hint) ==
    IF time_hint \in {"verify_start", "verify_then", "verify_still"}
    THEN parse_datetimes_easy_both(p, flat, FALSE)
    ELSE IF time_hint = "verify_end"
    THEN must_parse_datetime_from_rest(p, flat, "datetime2", FALSE)
    ELSE IF time_hint = "verify_both"
    THEN parse_datetimes_easy_both(p, flat, TRUE)
    ELSE IF time_hint \in {"verify_none", "verify_after"}
    THEN Step(p, flat, FALSE, "none")
    ELSE Step(p, flat, FALSE, "AssertionError")

lstrip_activity(p, act_and_rest) ==
    LET act_cat_sep_idx == index(act_and_rest, ACTEGORY_SEP)
    IN IF act_cat_sep_idx >= 1
       THEN Step([p EXCEPT !.activity_name =
                      SubSeq(act_and_rest, 1, act_cat_sep_idx - 1)],
                 Tail_from(act_and_rest, act_cat_sep_idx + 1), TRUE, "none")
       ELSE Step(p, act_and_rest, FALSE, "none")

\* must_parse_datetimes_known: the datetimes were delimited from the
\* activity by an item separator.
must_parse_datetimes_known(p, datetimes, time_hint, expecting, strictly_two) ==
    LET parts == RE_DATE_TO_DATE_SEP_split(datetimes)
        split == expecting = 2 /\ Len(parts) > 1
        p1 == IF split
              THEN [p EXCEPT !.raw_datetime1 = parts[1],
                             !.raw_datetime2 = parts[3]]
              ELSE p
    IN IF expecting = 2 /\ ~split /\ strictly_two
       THEN Step(p, NoneS, TRUE, "ParserMissingDatetimeTwoException")
       ELSE IF expecting = 1 \/ ~Truthy(p1.raw_datetime1)
       THEN IF time_hint = "verify_start"
            THEN Step([p1 EXCEPT !.raw_datetime1 = datetimes,
                                 !.datetime2 = DtStr(<<>>)],
                      NoneS, TRUE, "none")
            ELSE IF time_hint \in {"verify_end", "verify_then", "verify_still"}
                    /\ ~strictly_two
            THEN Step([p1 EXCEPT !.datetime1 = DtStr(<<>>),
                                 !.raw_datetime2 = datetimes],
                      NoneS, TRUE, "none")
            ELSE Step(p1, NoneS, TRUE, "AssertionError")
       ELSE Step(p1, NoneS, TRUE, "none")

\* must_parse_datetimes_magic: no item separator before the '@', so the
\* last datetime has to be one discern recognises, and what follows it is
\* the activity.
must_parse_datetimes_magic(p, datetimes_and_act, time_hint, expecting, strictly_two) ==
    LET parts == RE_DATE_TO_DATE_SEP_split(datetimes_and_act)
        split == expecting = 2 /\ Len(parts) > 1
        p1 == IF split THEN [p EXCEPT !.raw_datetime1 = parts[1]] ELSE p
        whole == expecting = 1 \/ ~Truthy(p1.raw_datetime1)
        dt_and_act == IF whole THEN datetimes_and_act ELSE parts[3]
        dt_attr == IF whole /\ time_hint = "verify_start"
                   THEN "datetime1" ELSE "datetime2"
    IN IF expecting = 2 /\ ~split /\ strictly_two
       THEN Step(p, NoneS, TRUE, "ParserMissingDatetimeTwoException")
       ELSE IF whole /\ time_hint \notin
                 {"verify_start", "verify_end", "verify_then", "verify_still"}
       THEN Step(p1, NoneS, TRUE, "AssertionError")
       ELSE LET got == must_parse_datetime_from_rest(
                           p1, dt_and_act, dt_attr, FALSE)
            IN IF got.exc # "none" THEN Step(got.p, NoneS, TRUE, got.exc)
               ELSE Step([got.p EXCEPT !.activity_name = got.rest],
                         NoneS, TRUE, "none")

\* lstrip_datetimes with lstrip_datetimes_delimited: cut the text at the
\* first '@', then look for an item separator between datetimes and
\* activity.
lstrip_datetimes(p, flat, time_hint, expecting, strictly_two) ==
    LET act_cat_sep_idx == index(flat, ACTEGORY_SEP)
        datetimes_and_act == SubSeq(flat, 1, act_cat_sep_idx - 1)
        rest_after_act == Tail_from(flat, act_cat_sep_idx + 1)
        parts == re_item_sep_split(datetimes_and_act, 1)
        datetimes == IF Len(parts) = 2 THEN parts[1] ELSE NoneS
        p1 == IF Len(parts) = 2 THEN [p EXCEPT !.activity_name = parts[2]]
              ELSE p
    IN IF act_cat_sep_idx = 0
       THEN Step(p, NoneS, TRUE, "ParserMissingSeparatorActivity")
       ELSE LET got == IF Truthy(datetimes)
                       THEN must_parse_datetimes_known(
                                p1, datetimes, time_hint, expecting, strictly_two)
                       ELSE must_parse_datetimes_magic(
                                p1, datetimes_and_act, time_hint, expecting,
                                strictly_two)
            IN Step(got.p, rest_after_act, TRUE, got.exc)

parse_datetimes_hard(p, flat, time_hint) ==
    IF time_hint = "verify_start"
    THEN lstrip_datetimes(p, flat, time_hint, 2, FALSE)
    ELSE IF time_hint \in {"verify_end", "verify_then", "verify_still"}
    THEN lstrip_datetimes(p, flat, time_hint, 1, FALSE)
    ELSE IF time_hint = "verify_both"
    THEN lstrip_datetimes(p, flat, time_hint, 2, TRUE)
    ELSE IF time_hint \in {"verify_none", "verify_after"}
    THEN lstrip_activity(p, flat)
    ELSE Step(p, NoneS, TRUE, "Exception")

\* consume_tags: strip each piece and drop the empty ones.
RECURSIVE consume_tags(_)
consume_tags(tags) ==
    IF tags = <<>> THEN <<>>
    ELSE IF strip(Head(tags)) = <<>> THEN consume_tags(Tail(tags))
    ELSE <<strip(Head(tags))>> \o consume_tags(Tail(tags))

\* The text after the first newline of the raw factoid (self.rest); the
\* factoids here are single lines.
more_description == <<>>

consume_tags_and_description_prefix(p, unseparated_tags, description_middle) ==
    LET has_tags == Truthy(unseparated_tags)
                      /\ RE_SPLIT_CAT_AND_TAGS_match(unseparated_tags)
        description_prefix ==
            IF Truthy(unseparated_tags) /\ ~has_tags
            THEN unseparated_tags ELSE <<>>
        p1 == IF has_tags
              THEN [p EXCEPT !.tags = consume_tags(
                        RE_SPLIT_TAGS_AND_TAGS_split(unseparated_tags, 0))]
              ELSE p
    IN [p1 EXCEPT !.description =
            description_prefix
              \o (IF description_middle # <<>> THEN <<" ">> ELSE <<>>)
              \o description_middle
              \o (IF more_description # <<>> THEN <<"\n">> ELSE <<>>)
              \o more_description]

parse_cat_and_remainder(p, cat_and_remainder) ==
    LET parts == re_item_sep_split(cat_and_remainder, 2)
        remainder == IF Len(parts) = 3 THEN strip(parts[3]) ELSE <<>>
        description_prefix == remainder
        cat_tags == RE_SPLIT_TAGS_AND_TAGS_split(parts[1], 1)
    IN IF Len(parts) = 1
       THEN IF parts[1] # <<>>
            THEN consume_tags_and_description_prefix(
                     [p EXCEPT !.category_name = cat_tags[1]],
                     IF Len(cat_tags) = 2
                     THEN <<hash_stamps[1]>> \o cat_tags[2] ELSE NoneS,
                     description_prefix)
            ELSE consume_tags_and_description_prefix(
                     p, NoneS, description_prefix)
       ELSE consume_tags_and_description_prefix(
                [p EXCEPT !.category_name = parts[1]],
                parts[2], description_prefix)

parse_tags_and_remainder(p, tags_and_remainder) ==
    LET parts == re_item_sep_split(tags_and_remainder, 1)
    IN consume_tags_and_description_prefix(
           p, parts[1], IF Len(parts) = 2 THEN parts[2] ELSE <<>>)

hydrate_datetime_friendly(datepart) == dateparser_parse(datepart)

hydrate_datetime_either(the_datetime, raw_datetime) ==
    IF TruthyDt(the_datetime) \/ ~Truthy(raw_datetime) THEN the_datetime
    ELSE LET raw == re_item_sep_sub(raw_datetime)
             iso == parse_datetime_iso8601(raw)
         IN IF TruthyDt(iso) THEN iso ELSE hydrate_datetime_friendly(raw)

hydrate_datetimes(p) ==
    [p EXCEPT
        !.datetime1 = hydrate_datetime_either(p.datetime1, p.raw_datetime1),
        !.datetime2 = hydrate_datetime_either(p.datetime2, p.raw_datetime2)]

\* Parser.parse: the easy path, the hard path when the easy one raised a
\* ParserException, then category, tags and description, then validation.
Parse(p, exc) == [p |-> p, exc |-> exc]

parse_validation(filled) ==
    IF ~Truthy(filled.activity_name)
    THEN Parse(filled, "ParserMissingActivityException")
    ELSE Parse(filled, "none")

parse_remainder(front) ==
    IF front.exc # "none" THEN Parse(front.p, front.exc)
    ELSE parse_validation(hydrate_datetimes(
             IF front.expect_category
             THEN parse_cat_and_remainder(front.p, front.rest)
             ELSE parse_tags_and_remainder(front.p, front.rest)))

parse_datetimes(easy, flat, time_hint) ==
    IF easy.exc = "none" THEN lstrip_activity(easy.p, easy.rest)
    ELSE IF easy.exc \in ParserExceptions
    THEN parse_datetimes_hard(reset_result, flat, time_hint)
    ELSE easy

parse(flat, time_hint) ==
    parse_remainder(
        parse_datetimes(parse_datetimes_easy(reset_result, flat, time_hint),
                        flat, time_hint))

\* Parser.dissect_raw_fact: err is the ParserException caught ("None": none
\* was); exc is what leaves the call.
Dissected(done, lenient) ==
    [p |-> done.p,
     err |-> IF done.exc \in ParserExceptions THEN done.exc ELSE "None",
     exc |-> IF done.exc \in ParserExceptions /\ lenient
             THEN "none" ELSE done.exc]

dissect_raw_fact(factoid, time_hint, lenient) ==
    Dissected(parse(factoid, time_hint), lenient)

\* parse_factoid: (fact_dict, err), or the exception that left the call.
fact_dict(p) ==
    [start |-> IF TruthyDt(p.datetime1) THEN p.datetime1 ELSE DtNone,
     end |-> IF TruthyDt(p.datetime2) THEN p.datetime2 ELSE DtNone,
     activity |-> IF Truthy(p.activity_name) THEN strip(p.activity_name) ELSE <<>>,
     category |-> IF Truthy(p.category_name) THEN strip(p.category_name) ELSE <<>>,
     description |-> IF Truthy(p.description) THEN strip(p.description) ELSE <<>>,
     tags |-> p.tags,
     warnings |-> p.warnings]

Returning(d) ==
    IF d.exc = "none"
    THEN [done |-> TRUE, exc |-> "none", fact_dict |-> fact_dict(d.p),
          err |-> d.err]
    ELSE [done |-> TRUE, exc |-> d.exc,
          fact_dict |-> fact_dict(reset_result), err |-> "None"]

parse_factoid(factoid, time_hint, lenient) ==
    Returning(dissect_raw_fact(factoid, time_hint, lenient))

\* --------------------------------------------------- Fact serialisation
\* Fact.tags_sorted: the tags by name.  TagNames lists the tag names in
\* alphabetical order.
TagNames == << <<"t">>, <<"u">>, <<"u", " ", "1">> >>

tags_sorted(tags) == SelectSeq(TagNames, LAMBDA name : name \in tags)

\* Fact.tagnames
RECURSIVE join_tagnames(_)
join_tagnames(names) ==
    IF names = <<>> THEN <<>>
    ELSE <<"#">> \o Head(names)
           \o (IF Tail(names) = <<>> THEN <<>> ELSE <<" ">>)
           \o join_tagnames(Tail(names))

tagnames(fact) ==
    IF fact.tags # {} THEN <<" ">> \o join_tagnames(tags_sorted(fact.tags))
    ELSE <<>>

\* Fact.get_serialized_string
get_times_string(fact) ==
    IF fact.start # NoneT
    THEN IF fact.end # NoneT
         THEN <<strftime(fact.start), " ", "-", " ", strftime(fact.end), " ">>
         ELSE <<strftime(fact.start), " ">>
    ELSE <<>>

get_activity_string(fact) ==
    IF Truthy(fact.category) THEN fact.name \o <<"@">> \o fact.category
    ELSE fact.name

get_serialized_string(fact) ==
    get_times_string(fact) \o get_activity_string(fact) \o tagnames(fact)
      \o (IF Truthy(fact.description)
          THEN <<",", " ">> \o fact.description ELSE <<>>)

\* ------------------------------------------------- save and ongoing fact
\* BaseFactManager.save and the ongoing ("tmp") fact kept in a pickle file.
\* A hamster_lib Fact is its pk, start and end here; NoFact stands for "no
\* Fact" (None, or the False _load_tmp_fact gives when there is no file).
HFact(pk, start, end) == [pk |-> pk, start |-> start, end |-> end]
NoFact == HFact(NoneT, NoneT, NoneT)

\* The tmp file: absent, or the pickle of one fact.
NoFile == [exists |-> FALSE, fact |-> NoFact]
pickle_dump(fact) == [exists |-> TRUE, fact |-> fact]
_load_tmp_fact(tmp_file) == IF tmp_file.exists THEN tmp_file.fact ELSE NoFact

\* What a manager call leaves behind: the exception it raised, the fact it
\* returned, the private methods it called, and the store afterwards.
Outcome(exc, result, called, tmp_file, backend, pk_seq) ==
    [exc |-> exc, result |-> result, called |-> called,
     tmp_file |-> tmp_file, backend |-> backend, pk_seq |-> pk_seq]

\* Fact.delta is None without an end; a timedelta is falsy when it is zero.
HasDelta(fact) == fact.end # NoneT
delta(fact) == fact.end - fact.start

\* The backend's _add and _update: the backend either accepts the fact or
\* refuses it with ValueError; _update of an unknown pk is a KeyError.
_add(fact, tmp_file, backend, pk_seq, accepts) ==
    IF accepts
    THEN Outcome("none", [fact EXCEPT !.pk = pk_seq], <<"_add">>, tmp_file,
                 backend \cup {[fact EXCEPT !.pk = pk_seq]}, pk_seq + 1)
    ELSE Outcome("ValueError", NoFact, <<"_add">>, tmp_file, backend, pk_seq)

_update(fact, tmp_file, backend, pk_seq, accepts) ==
    IF \A f \in backend : f.pk # fact.pk
    THEN Outcome("KeyError", NoFact, <<"_update">>, tmp_file, backend, pk_seq)
    ELSE IF accepts
    THEN Outcome("none", fact, <<"_update">>, tmp_file,
                 {f \in backend : f.pk # fact.pk} \cup {fact}, pk_seq)
    ELSE Outcome("ValueError", NoFact, <<"_update">>, tmp_file, backend, pk_seq)

_start_tmp_fact_overwriting(fact, tmp_file, backend, pk_seq) ==
    IF fact.end # NoneT
    THEN Outcome("ValueError", NoFact, <<"_start_tmp_fact">>,
                 tmp_file, backend, pk_seq)
    ELSE Outcome("none", fact, <<"_start_tmp_fact">>, pickle_dump(fact),
                 backend, pk_seq)

_start_tmp_fact(fact, tmp_file, backend, pk_seq) ==
    IF fact.end # NoneT
    THEN Outcome("ValueError", NoFact, <<"_start_tmp_fact">>,
                 tmp_file, backend, pk_seq)
    ELSE IF _load_tmp_fact(tmp_file) # NoFact
    THEN Outcome("ValueError", NoFact, <<"_start_tmp_fact">>,
                 tmp_file, backend, pk_seq)
    ELSE Outcome("none", fact, <<"_start_tmp_fact">>, pickle_dump(fact),
                 backend, pk_seq)

save(fact, fact_min_delta, tmp_file, backend, pk_seq, accepts) ==
    IF HasDelta(fact) /\ delta(fact) # 0 /\ delta(fact) < fact_min_delta
    THEN Outcome("ValueError", NoFact, <<>>, tmp_file, backend, pk_seq)
    ELSE IF fact.pk # NoneT
    THEN _update(fact, tmp_file, backend, pk_seq, accepts)
    ELSE IF fact.end = NoneT
    THEN _start_tmp_fact(fact, tmp_file, backend, pk_seq)
    ELSE _add(fact, tmp_file, backend, pk_seq, accepts)

\* end_hint is None, a datetime, a timedelta, or something else.
Hint(kind, val) == [kind |-> kind, val |-> val]
TruthyHint(end_hint) ==
    end_hint.kind = "datetime"
      \/ (end_hint.kind = "timedelta" /\ end_hint.val # 0)

computed_end(end_hint, now) ==
    IF TruthyHint(end_hint)
    THEN IF end_hint.kind = "datetime" THEN end_hint.val
         ELSE now + end_hint.val
    ELSE now

\* Variant: the tmp file is removed before the fact is saved.
stop_tmp_fact_removing_first(end_hint, now, fact_min_delta, tmp_file, backend, pk_seq, accepts) ==
    LET end == computed_end(end_hint, now)
        fact == _load_tmp_fact(tmp_file)
    IN IF end_hint.kind \notin {"None", "datetime", "timedelta"}
       THEN Outcome("TypeError", NoFact, <<>>, tmp_file, backend, pk_seq)
       ELSE IF fact = NoFact
       THEN Outcome("ValueError", NoFact, <<>>, tmp_file, backend, pk_seq)
       ELSE IF fact.start > end
       THEN Outcome("ValueError", NoFact, <<>>, tmp_file, backend, pk_seq)
       ELSE save([fact EXCEPT !.end = end], fact_min_delta, NoFile,
                 backend, pk_seq, accepts)

stop_tmp_fact_keeping_file(end_hint, now, fact_min_delta, tmp_file, backend, pk_seq, accepts) ==
    LET end == computed_end(end_hint, now)
        fact == _load_tmp_fact(tmp_file)
    IN IF end_hint.kind \notin {"None", "datetime", "timedelta"}
       THEN Outcome("TypeError", NoFact, <<>>, tmp_file, backend, pk_seq)
       ELSE IF fact = NoFact
       THEN Outcome("ValueError", NoFact, <<>>, tmp_file, backend, pk_seq)
       ELSE IF fact.start > end
       THEN Outcome("ValueError", NoFact, <<>>, tmp_file, backend, pk_seq)
       ELSE save([fact EXCEPT !.end = end], fact_min_delta, tmp_file,
                 backend, pk_seq, accepts)

stop_tmp_fact(end_hint, now, fact_min_delta, tmp_file, backend, pk_seq, accepts) ==
    LET end == computed_end(end_hint, now)
        fact == _load_tmp_fact(tmp_file)
    IN IF end_hint.kind \notin {"None", "datetime", "timedelta"}
       THEN Outcome("TypeError", NoFact, <<>>, tmp_file, backend, pk_seq)
       ELSE IF fact = NoFact
       THEN Outcome("ValueError", NoFact, <<>>, tmp_file, backend, pk_seq)
       ELSE IF fact.start > end
       THEN Outcome("ValueError", NoFact, <<>>, tmp_file, backend, pk_seq)
       ELSE LET saved == save([fact EXCEPT !.end = end], fact_min_delta,
                              tmp_file, backend, pk_seq, accepts)
            IN IF saved.exc # "none" THEN saved
               ELSE [saved EXCEPT !.tmp_file = NoFile]

get_tmp_fact(tmp_file, backend, pk_seq) ==
    IF _load_tmp_fact(tmp_file) = NoFact
    THEN Outcome("KeyError", NoFact, <<>>, tmp_file, backend, pk_seq)
    ELSE Outcome("none", _load_tmp_fact(tmp_file), <<>>, tmp_file, backend, pk_seq)

cancel_tmp_fact(tmp_file, backend, pk_seq) ==
    IF _load_tmp_fact(tmp_file) = NoFact
    THEN Outcome("KeyError", NoFact, <<>>, tmp_file, backend, pk_seq)
    ELSE Outcome("none", NoFact, <<>>, NoFile, backend, pk_seq)

\* ----------------------------------------------------------- format_delta
\* A timedelta is its whole seconds; delta may be None.
Timedelta(seconds) == [is_none |-> FALSE, seconds |-> seconds]
NoneDelta == [is_none |-> TRUE, seconds |-> 0]
total_seconds(td) == td.seconds

SecondsPerHour == 3600

\* str(n) of a natural number: its decimal digits.
Digit(d) == <<"0", "1", "2", "3", "4", "5", "6", "7", "8", "9">>[d + 1]

RECURSIVE text_type(_)
text_type(n) ==
    IF n < 10 THEN <<Digit(n)>>
    ELSE Append(text_type(n \div 10), Digit(n % 10))

\* '{:02d}' and '{:>2d}': at least two characters, padded on the left.
pad2(n, fill) == IF n < 10 THEN <<fill>> \o text_type(n) ELSE text_type(n)

format_mins(minutes) == text_type(minutes)

format_hours_mins(hours, minutes) ==
    pad2(hours, "0") \o <<":">> \o pad2(minutes, "0")

format_hours_h_mins_m(hours, minutes) ==
    pad2(hours, " ") \o <<" ">>
      \o (IF hours = 1 THEN <<"hour ">> ELSE <<"hours">>)
      \o <<" ">> \o pad2(minutes, " ") \o <<" ">>
      \o (IF minutes = 1 THEN <<"minute ">> ELSE <<"minutes">>)

\* PedanticTimedelta(seconds).time_format_scaled(): the scaled text is not
\* spelled out, only that it is made from the seconds.
format_pedantic(seconds) == <<"scaled">> \o text_type(seconds)

format_delta(td, style) ==
    LET seconds == IF ~td.is_none THEN total_seconds(td) ELSE 0
        hours == seconds \div SecondsPerHour
        minutes == (seconds % SecondsPerHour) \div SecondsPerMinute
    IN IF style = "%M" THEN format_mins(minutes)
       ELSE IF style = "%H:%M" THEN format_hours_mins(hours, minutes)
       ELSE IF style = "HHhMMm" THEN format_hours_h_mins_m(hours, minutes)
       ELSE format_pedantic(seconds)

\* ------------------------------------------------------------ TagManager
\* A Tag is its pk and its name; is_tag is FALSE for an object that is not
\* a Tag.  A pk of None is NonePk, so that it differs from the pk 0.  The
\* tags table holds one row per pk (AlchemyTag); names are unique.
NonePk == 0 - 1
Tag(pk, name) == [is_tag |-> TRUE, pk |-> pk, name |-> name]
NotATag == [is_tag |-> FALSE, pk |-> NonePk, name |-> "x"]
NoTag == Tag(NonePk, "")

\* `if tag.pk`: None and 0 are both falsy.
TruthyPk(pk) == pk # NonePk /\ pk # 0

TagOutcome(exc, why, result, called, table, seq) ==
    [exc |-> exc, why |-> why, result |-> result, called |-> called,
     table |-> table, seq |-> seq]

\* session.commit(): the unique constraint on the name.
NameTaken(table, pk, name) == \E row \in table : row.name = name /\ row.pk # pk

\* TagManager._add
tag_add(tag, table, seq) ==
    IF TruthyPk(tag.pk)
    THEN TagOutcome("ValueError", "already has a PK", NoTag, <<"_add">>, table, seq)
    ELSE IF NameTaken(table, NonePk, tag.name)
    THEN TagOutcome("ValueError", "name already present", NoTag, <<"_add">>,
                    table, seq)
    ELSE TagOutcome("none", "", Tag(seq, tag.name), <<"_add">>,
                    table \cup {Tag(seq, tag.name)}, seq + 1)

\* TagManager._update
tag_update(tag, table, seq) ==
    IF ~TruthyPk(tag.pk)
    THEN TagOutcome("ValueError", "no PK", NoTag, <<"_update">>, table, seq)
    ELSE IF ~(\E row \in table : row.pk = tag.pk)
    THEN TagOutcome("KeyError", "no tag with PK", NoTag, <<"_update">>,
                    table, seq)
    ELSE IF NameTaken(table, tag.pk, tag.name)
    THEN TagOutcome("ValueError", "name already present", NoTag, <<"_update">>,
                    table, seq)
    ELSE TagOutcome("none", "", Tag(tag.pk, tag.name), <<"_update">>,
                    {row \in table : row.pk # tag.pk}
                      \cup {Tag(tag.pk, tag.name)},
                    seq)

\* BaseTagManager.save
tag_save(tag, table, seq) ==
    IF ~tag.is_tag
    THEN TagOutcome("TypeError", "not a tag", NoTag, <<>>, table, seq)
    ELSE IF TruthyPk(tag.pk) \/ tag.pk = 0
    THEN tag_update(tag, table, seq)
    ELSE tag_add(tag, table, seq)

\* ------------------------------------------------- parser, store: at rest
\* A request to parse: the factoid typed by a user (form: the pieces it was
\* put together from) or serialised from a Fact (fact), with the time hint
\* and the lenient flag; and what parse_factoid answered.
NoForm == [front |-> <<>>, act |-> <<>>, cat |-> <<>>, tags |-> <<>>, desc |-> <<>>]
NoOrigin ==
    [name |-> <<>>, category |-> NoneS, tags |-> {}, description |-> NoneS,
     start |-> NoneT, end |-> NoneT]
NoRequest ==
    [source |-> "none", factoid |-> <<>>, time_hint |-> "verify_none",
     lenient |-> FALSE, form |-> NoForm, fact |-> NoOrigin]
NotParsed ==
    [done |-> FALSE, exc |-> "none", fact_dict |-> fact_dict(reset_result),
     err |-> "None"]

\* The last manager call: its name, the fact or end hint it was given, the
\* clock's now() during it, the store as it was before the call, and the
\* call's outcome.
Op(name, fact, end_hint, now, tmp_before, backend_before, out) ==
    [name |-> name, fact |-> fact, end_hint |-> end_hint, now |-> now,
     tmp_before |-> tmp_before, backend_before |-> backend_before,
     exc |-> out.exc, result |-> out.result, called |-> out.called]
NoOp ==
    [name |-> "none", fact |-> NoFact, end_hint |-> Hint("None", 0),
     now |-> NoneT, tmp_before |-> NoFile, backend_before |-> {}, exc |-> "none",
     result |-> NoFact, called |-> <<>>]

NotFormatted ==
    [done |-> FALSE, delta |-> NoneDelta, style |-> "", text |-> <<>>]

\* The last tag manager call: its name, the tag it was given, the table as
\* it was before the call, and the call's outcome.
TagOp(name, tag, table_before, out) ==
    [name |-> name, tag |-> tag, table_before |-> table_before,
     exc |-> out.exc, why |-> out.why, result |-> out.result,
     called |-> out.called]
NoTagOp ==
    TagOp("none", NoTag, {},
          TagOutcome("none", "", NoTag, <<>>, {}, 1))

\* ------------------------------------------------------------------ state
VARIABLES timeline, next_pk, calls, entry_fact, call,
          request, parsed,
          tmp_file, backend, pk_seq, fact_min_delta, op,
          formatted,
          tag_table, tag_seq, tag_op

timeline_vars == <<timeline, next_pk, calls, entry_fact, call>>
parser_vars == <<request, parsed>>
store_vars == <<tmp_file, backend, pk_seq, fact_min_delta, op>>
format_vars == <<formatted>>
tag_vars == <<tag_table, tag_seq, tag_op>>
vars == <<timeline_vars, parser_vars, store_vars, format_vars, tag_vars>>

ParserAtRest == request = NoRequest /\ parsed = NotParsed
StoreAtRest ==
    /\ tmp_file = NoFile
    /\ backend = {}
    /\ pk_seq = 1
    /\ fact_min_delta = 0
    /\ op = NoOp
FormatAtRest == formatted = NotFormatted
TagAtRest == tag_table = {} /\ tag_seq = 1 /\ tag_op = NoTagOp

Idle == Call("idle", NewFact(NoneT, NoneT), <<>>, <<>>)

RankedFacts(S) ==
    {Fact(Cardinality({j \in S : j[1] < iv[1]}) + 1, iv[1], iv[2]) : iv \in S}

InitTimelines ==
    {RankedFacts(S) : S \in {T \in SUBSET Intervals :
        /\ Cardinality(T) <= MaxInitFacts
        /\ \A a \in T : \A b \in T :
              (a # b) => ~(a[1] < b[2] /\ b[1] < a[2])}}

Init ==
    /\ timeline \in InitTimelines
    /\ next_pk = MaxInitFacts + 1
    /\ calls = 0
    /\ entry_fact = NewFact(NoneT, NoneT)
    /\ call = Idle
    /\ ParserAtRest
    /\ StoreAtRest
    /\ FormatAtRest
    /\ TagAtRest

\* A caller invokes insert_forcefully with a new fact whose set boundaries
\* are in order.  The call only reads the timeline.
Insert(new) ==
    /\ call.exc # "none"
    /\ calls < MaxCalls
    /\ (new.start # NoneT /\ new.end # NoneT) => new.start < new.end
    /\ calls' = calls + 1
    /\ entry_fact' = new
    /\ call' = insert_forcefully(timeline, new)
    /\ UNCHANGED <<timeline, next_pk>>
    /\ UNCHANGED <<parser_vars, store_vars, format_vars, tag_vars>>

\* The caller persists what the call returned: a returned fact marked
\* deleted is removed, any other returned fact replaces the stored fact of
\* the same pk, and then the new fact is added under a fresh pk.
Persisted(f) ==
    [f EXCEPT !.dirty_reasons = {}]

ApplyEdits(tl, returned) ==
    LET edits == {returned[i].conflict : i \in DOMAIN returned}
        kept == {f \in tl : \A e \in edits : e.pk # f.pk}
    IN kept \cup {Persisted(e) : e \in {d \in edits : ~d.deleted}}

Apply ==
    /\ call.exc = "none"
    /\ timeline' = ApplyEdits(timeline, call.returned)
                     \cup {Fact(next_pk, call.fact.start, call.fact.end)}
    /\ next_pk' = next_pk + 1
    /\ call' = Idle
    /\ UNCHANGED <<calls, entry_fact>>
    /\ UNCHANGED <<parser_vars, store_vars, format_vars, tag_vars>>

Next ==
    \/ \E new \in NewFacts : Insert(new)
    \/ Apply

Spec == Init /\ [][Next]_vars

\* ----------------------------------------------------------------- claims
Called == call.exc # "idle"
Returned == call.exc = "none"
BothSet(f) == f.start # NoneT /\ f.end # NoneT
ReturnedFacts == {call.returned[i].conflict : i \in DOMAIN call.returned}
ReturnedOf(f) == {c \in ReturnedFacts : c.pk = f.pk}

\* C1: starting from a timeline without overlapping interiors, after any
\* sequence of insert_forcefully calls whose returned edits the caller
\* applies before adding the new fact, no two facts of the timeline have
\* overlapping interiors.
C1_NonOverlapPreserved == NonOverlapping(timeline)

\* C2: inserting [B, C] strictly inside one existing fact [A, D] returns
\* exactly two edited copies, [A, B] (dirty reason end) and [C, D] (dirty
\* reason start), both with split_from set to the original's pk, and no
\* fact marked deleted.
C2_SplitReturnsTwoFragments ==
    (Called /\ NonOverlapping(timeline) /\ BothSet(entry_fact)) =>
        \A f \in timeline :
            (f.start < entry_fact.start /\ entry_fact.end < f.end) =>
                /\ Returned
                /\ Len(call.returned) = 2
                /\ call.returned[1].conflict =
                       [f EXCEPT !.end = entry_fact.start,
                                 !.dirty_reasons = {"end"},
                                 !.split_from = f.pk]
                /\ call.returned[2].conflict =
                       [f EXCEPT !.start = entry_fact.end,
                                 !.dirty_reasons = {"start"},
                                 !.split_from = f.pk]

\* C3: every existing fact lying entirely inside the new fact's span is
\* returned marked deleted with dirty reason deleted and its start and end
\* unchanged, and no trimmed copy or split fragment is returned for it.
C3_InsideIsReturnedDeleted ==
    (Called /\ NonOverlapping(timeline) /\ BothSet(entry_fact)) =>
        \A f \in timeline :
            (entry_fact.start <= f.start /\ f.end <= entry_fact.end) =>
                ReturnedOf(f) =
                    {[f EXCEPT !.deleted = TRUE,
                               !.dirty_reasons = {"deleted"}]}

\* C4: a conflicting fact that starts at or before new_fact.start and ends
\* within the span is returned with end = new_fact.start, start unchanged,
\* dirty reason end; one that starts within the span and ends at or after
\* new_fact.end is returned with start = new_fact.end, end unchanged, dirty
\* reason start.  (A fact lying entirely inside the span is the deletion
\* case, which is classified first, and is left out here.)
InsideSpan(f, new) == new.start <= f.start /\ f.end <= new.end

C4_TrimReturned ==
    (Called /\ NonOverlapping(timeline) /\ BothSet(entry_fact)) =>
        \A f \in timeline :
            /\ ( /\ ~InsideSpan(f, entry_fact)
                 /\ f.start <= entry_fact.start
                 /\ entry_fact.start < f.end
                 /\ f.end <= entry_fact.end ) =>
                   ReturnedOf(f) = {[f EXCEPT !.end = entry_fact.start,
                                              !.dirty_reasons = {"end"}]}
            /\ ( /\ ~InsideSpan(f, entry_fact)
                 /\ entry_fact.start <= f.start
                 /\ f.start < entry_fact.end
                 /\ entry_fact.end <= f.end ) =>
                   ReturnedOf(f) = {[f EXCEPT !.start = entry_fact.end,
                                              !.dirty_reasons = {"start"}]}

\* The facts the antecedent / subsequent lookups can answer with.
EndingBefore(new) == {f \in timeline : f.end <= new.end}
Antecedents(new) ==
    {f \in EndingBefore(new) : \A g \in EndingBefore(new) : g.end <= f.end}
StartingAfter(new) == {f \in timeline : f.start >= new.start}
Subsequents(new) ==
    {f \in StartingAfter(new) : \A g \in StartingAfter(new) : f.start <= g.start}

StartToInfer == Called /\ entry_fact.start = NoneT /\ entry_fact.end # NoneT
EndToInfer == Called /\ entry_fact.start # NoneT /\ entry_fact.end = NoneT

C6_BoundaryError ==
    /\ ( /\ Called
         /\ entry_fact.start = NoneT
         /\ (entry_fact.end = NoneT \/ Antecedents(entry_fact) = {}) ) =>
            /\ call.exc = "ValueError"
            /\ call.returned = <<>>
            /\ call.fact.start = NoneT
    /\ ( /\ EndToInfer
         /\ NonOverlapping(timeline)
         /\ Subsequents(entry_fact) = {} ) =>
            /\ call.exc = "ValueError"
            /\ call.returned = <<>>
            /\ call.fact.end = NoneT

C6_Witness ==
    /\ EndToInfer
    /\ NonOverlapping(timeline)
    /\ timeline # {}
    /\ Subsequents(entry_fact) = {}
    /\ call.exc = "ValueError"

C8_NewFactFrame ==
    Returned =>
        /\ (entry_fact.start # NoneT) => call.fact.start = entry_fact.start
        /\ (entry_fact.end # NoneT) => call.fact.end = entry_fact.end
        /\ [call.fact EXCEPT !.start = NoneT, !.end = NoneT]
             = [entry_fact EXCEPT !.start = NoneT, !.end = NoneT]

C8_Witness ==
    /\ Returned
    /\ EndToInfer
    /\ call.fact.end # NoneT
    /\ call.fact.start = entry_fact.start
    /\ Len(call.returned) > 0

\* C9: for a non-overlapping timeline and a new fact with start < end,
\* each existing fact whose interior overlaps the new fact's span appears
\* in the returned list with an edit (deleted, trimmed, or both split
\* fragments) that removes the overlap.
C9_NoConflictDropped ==
    (Called /\ NonOverlapping(timeline) /\ BothSet(entry_fact)) =>
        \A f \in timeline :
            Overlap(f, entry_fact) =>
                /\ ReturnedOf(f) # {}
                /\ \A c \in ReturnedOf(f) :
                      c.deleted \/ ~Overlap(c, entry_fact)

\* C10: when a timeline query (surrounding, starting_at, ending_at) finds
\* more than one fact at the instant it is asked about, the call ends with
\* that integrity error, returns no edit list, and no resolution has been
\* applied to any fact.
AtStart(new) ==
    LET around == {f \in timeline : f.start < new.start /\ new.start < f.end}
    IN IF around # {} THEN around
       ELSE {f \in timeline : f.start = new.start}

AtEnd(new) ==
    LET around == {f \in timeline : f.start < new.end /\ new.end < f.end}
    IN IF around # {} THEN around
       ELSE {f \in timeline : f.end = new.end}

C10_IntegrityErrorPropagates ==
    /\ (Called /\ entry_fact.start # NoneT
               /\ Cardinality(AtStart(entry_fact)) > 1) =>
           call.exc = "IntegrityError"
    /\ (Called /\ BothSet(entry_fact)
               /\ Cardinality(AtEnd(entry_fact)) > 1) =>
           call.exc = "IntegrityError"
    /\ (call.exc = "IntegrityError") =>
           /\ call.returned = <<>>
           /\ call.resolved = <<>>
           /\ \A i \in DOMAIN call.conflicts :
                 call.conflicts[i].conflict = call.conflicts[i].original

C10_Witness ==
    /\ call.exc = "IntegrityError"
    /\ BothSet(entry_fact)
    /\ Cardinality(AtStart(entry_fact)) = 1
    /\ Cardinality(AtEnd(entry_fact)) > 1
    /\ Len(call.conflicts) = 1


C21_InferredSpanPositive ==
    (Returned /\ NonOverlapping(timeline) /\ ~BothSet(entry_fact)) =>
        /\ BothSet(call.fact)
        /\ call.fact.start < call.fact.end

C21_Witness ==
    /\ Returned
    /\ StartToInfer
    /\ NonOverlapping(timeline)
    /\ \E f \in timeline : f.start < entry_fact.end /\ entry_fact.end < f.end
    /\ call.fact.start # NoneT
    /\ call.fact.start < call.fact.end

\* C22: within one call a conflicting fact found by more than one query is
\* resolved at most once, by pk: the resolutions the call applied never
\* hold the same edit of the same pk twice.
C22_ResolvedOncePerPk ==
    (Called /\ NonOverlapping(timeline)) =>
        \A i \in DOMAIN call.resolved : \A j \in DOMAIN call.resolved :
            (i # j /\ call.resolved[i].pk = call.resolved[j].pk) =>
                call.resolved[i].dirty_reasons # call.resolved[j].dirty_reasons

\* C23: for a new fact with start < end and a non-overlapping timeline,
\* each conflict receives exactly one of the four resolutions (delete,
\* split, trim end, trim start), every trimmed or split copy has start
\* strictly before end, and no assertion of the resolution steps fails.
ResolutionsOf(i) ==
    LET c == call.conflicts[i].conflict
        o == call.conflicts[i].original
        prior == [o EXCEPT !.end = call.fact.start, !.dirty_reasons = {"end"}]
        after == [o EXCEPT !.start = call.fact.end, !.dirty_reasons = {"start"}]
    IN {name \in {"delete", "split", "trim end", "trim start"} :
          \/ /\ name = "delete"
             /\ c = [o EXCEPT !.deleted = TRUE, !.dirty_reasons = {"deleted"}]
          \/ /\ name = "split"
             /\ c = o
             /\ \E j \in 1..(Len(call.resolved) - 1) :
                   call.resolved[j] = prior /\ call.resolved[j + 1] = after
          \/ name = "trim end" /\ c = prior
          \/ name = "trim start" /\ c = after}

C23_OneResolutionNoDegenerate ==
    (Called /\ NonOverlapping(timeline) /\ BothSet(entry_fact)) =>
        /\ call.exc # "AssertionError"
        /\ \A i \in DOMAIN call.conflicts : Cardinality(ResolutionsOf(i)) = 1
        /\ \A i \in DOMAIN call.conflicts :
              call.conflicts[i].conflict.start < call.conflicts[i].conflict.end
        /\ \A j \in DOMAIN call.resolved :
              call.resolved[j].start < call.resolved[j].end

\* C24: an existing fact that only touches the new fact's span (it ends
\* exactly at new_fact.start or starts exactly at new_fact.end), and every
\* fact disjoint from the span, never enters the list of conflicts, so it
\* is never returned as edited or deleted.
C24_TouchingLeftAlone ==
    (Called /\ NonOverlapping(timeline) /\ BothSet(call.fact)) =>
        \A f \in timeline :
            ~Overlap(f, call.fact) =>
                \A i \in DOMAIN call.conflicts :
                    call.conflicts[i].conflict.pk # f.pk

C24_Witness ==
    /\ Returned
    /\ NonOverlapping(timeline)
    /\ BothSet(entry_fact)
    /\ \E f \in timeline : f.end = entry_fact.start
    /\ \E g \in timeline : g.start = entry_fact.end
    /\ Len(call.returned) > 0
    /\ \A i \in DOMAIN call.returned :
          Overlap(call.returned[i].original, entry_fact)

\* C25: whenever the call fails, new_fact.start and new_fact.end have the
\* values they had on entry; a boundary inferred earlier in the same call
\* is not left behind.
C25_FailureLeavesNewFact ==
    (Called /\ call.exc # "none") =>
        /\ call.fact.start = entry_fact.start
        /\ call.fact.end = entry_fact.end

\* ------------------------------------------------------ factoid requests
MaxTags == 2
MaxMinute == 3

TimelineAtRest ==
    /\ timeline = {}
    /\ next_pk = 1
    /\ calls = 0
    /\ entry_fact = NewFact(NoneT, NoneT)
    /\ call = Idle

\* The pieces a typed factoid is put together from: the datetime region,
\* the activity, the '@' and category, the tag run, the description.
Fronts ==
    {<<>>,
     <<"12:00">>,
     <<"12:00", " ", "-", " ", "14:00">>,
     <<StampText[1], " ", "-", " ", StampText[2]>>,
     <<DateOnly>>,
     <<"-7">>,
     <<"yesterday", ",">>,
     <<"yesterday", " ", "until", " ", "14:00">>,
     <<DateOnly, " ", "to", " ", "yesterday", ",">>,
     <<"q", " ", "to", " ", "r", ",">>,
     <<" ", "to", " ", "14:00">>}
Acts == {<<>>, <<" ">>, <<" ", "a">>}
Cats == {<<>>, <<"@">>, <<"@", "c">>}

RECURSIVE TagRun(_)
TagRun(k) ==
    IF k = 0 THEN <<>> ELSE TagRun(k - 1) \o <<" ", "#">> \o TagNames[k]
TagRuns ==
    {TagRun(k) : k \in 0..MaxTags} \cup {<<",">> \o TagRun(k) : k \in 1..MaxTags}
Descs == {<<>>, <<",", " ", "x">>, <<":", " ", "x", " ", "y">>}

Forms ==
    [front : Fronts, act : Acts, cat : Cats, tags : TagRuns, desc : Descs]

FlatOf(form) == form.front \o form.act \o form.cat \o form.tags \o form.desc

\* Fully populated facts: activity, category, at least one tag, a
\* description, and start before end, both to the minute or with seconds.
Instants ==
    {SecondsPerMinute * m + s : m \in 1..MaxMinute, s \in {0, 30}}
Origins ==
    {o \in [name : {<<"a">>, <<"a", " ", "b">>},
            category : {<<"c">>, <<"c", " ", "d">>},
            tags : {T \in SUBSET {TagNames[i] : i \in DOMAIN TagNames} :
                       T # {} /\ Cardinality(T) <= MaxTags},
            description : {<<"x">>, <<"x", " ", "y">>},
            start : Instants, end : Instants] : o.start < o.end}

ParserInit ==
    /\ TimelineAtRest
    /\ StoreAtRest
    /\ FormatAtRest
    /\ TagAtRest
    /\ request = NoRequest
    /\ parsed = NotParsed

\* A user types a factoid.
Type(form, time_hint, lenient) ==
    /\ request.source = "none"
    /\ request' = [source |-> "typed", factoid |-> FlatOf(form),
                   time_hint |-> time_hint, lenient |-> lenient,
                   form |-> form, fact |-> NoOrigin]
    /\ UNCHANGED <<parsed, timeline_vars, store_vars, format_vars, tag_vars>>

\* A fact is written out as its canonical factoid, to be read with hint
\* Both.
Serialize(fact, lenient) ==
    /\ request.source = "none"
    /\ request' = [source |-> "serialized",
                   factoid |-> get_serialized_string(fact),
                   time_hint |-> "verify_both", lenient |-> lenient,
                   form |-> NoForm, fact |-> fact]
    /\ UNCHANGED <<parsed, timeline_vars, store_vars, format_vars, tag_vars>>

ParseFactoid ==
    /\ request.source # "none"
    /\ ~parsed.done
    /\ parsed' = parse_factoid(request.factoid, request.time_hint,
                               request.lenient)
    /\ UNCHANGED <<request, timeline_vars, store_vars, format_vars, tag_vars>>

ParserNext ==
    \/ \E form \in Forms : \E time_hint \in TimeHints :
           \E lenient \in BOOLEAN : Type(form, time_hint, lenient)
    \/ \E fact \in Origins : \E lenient \in BOOLEAN : Serialize(fact, lenient)
    \/ ParseFactoid

ParserSpec == ParserInit /\ [][ParserNext]_vars


\* ------------------------------------------------------- parser claims
Answered == parsed.done /\ parsed.exc = "none"
Succeeded == Answered /\ parsed.err = "None"
TagSet(tags) == {tags[i] : i \in DOMAIN tags}

\* C12: for every factoid and time hint, parse_factoid with lenient=True
\* returns (it does not raise), and the error it returns is exactly the
\* error the same call with lenient=False raises, None when the strict call
\* succeeds; with lenient=False an error is raised and nothing is returned.
C12_LenientReturnsStrictError ==
    parsed.done =>
        LET strict == parse_factoid(request.factoid, request.time_hint, FALSE)
        IN /\ request.lenient =>
                /\ parsed.exc = "none"
                /\ parsed.err = IF strict.exc = "none" THEN "None"
                                ELSE strict.exc
           /\ (~request.lenient /\ parsed.exc # "none") =>
                parsed.fact_dict = fact_dict(reset_result)

\* C13: whenever parse_factoid returns with no error, the activity it
\* returns is non-empty after trimming; a factoid whose activity region is
\* missing or only whitespace fails with the missing-activity error.
C13_ActivityNeverEmpty ==
    /\ Succeeded => strip(parsed.fact_dict.activity) # <<>>
    /\ ( /\ parsed.done
         /\ request.source = "typed"
         /\ request.time_hint = "verify_none"
         /\ request.form.front = <<>>
         /\ strip(request.form.act) = <<>> ) =>
           "ParserMissingActivityException" \in {parsed.exc, parsed.err}

\* C14: whenever parse_factoid returns with no error, under hint Both the
\* result has start and end set, under hint Start it has start set, and
\* under hint End, Then or Still it has end set.
C14_DemandedTimeSet ==
    Succeeded =>
        /\ request.time_hint = "verify_both" =>
              /\ parsed.fact_dict.start # DtNone
              /\ parsed.fact_dict.end # DtNone
        /\ request.time_hint = "verify_start" =>
              parsed.fact_dict.start # DtNone
        /\ request.time_hint \in {"verify_end", "verify_then", "verify_still"} =>
              parsed.fact_dict.end # DtNone

\* C15: serialising a fully populated Fact with get_serialized_string and
\* parsing that string with hint Both gives back its activity, category,
\* tag set, description, start and end.
C15_RoundTrip ==
    (parsed.done /\ request.source = "serialized") =>
        /\ Succeeded
        /\ parsed.fact_dict.activity = request.fact.name
        /\ parsed.fact_dict.category = request.fact.category
        /\ TagSet(parsed.fact_dict.tags) = request.fact.tags
        /\ parsed.fact_dict.description = request.fact.description
        /\ parsed.fact_dict.start = DtObj(request.fact.start)
        /\ parsed.fact_dict.end = DtObj(request.fact.end)

\* C16: a factoid '<time> - <time> <activity>@<category> #<tag1> #<tag2>,
\* <text>' parsed with hint Both has that activity, that category without
\* the tag run, the two tags, the text as description, and start and end
\* set to the two times.
TimeOf(word) ==
    IF type_of(word) = "datetime" THEN parse_datetime_iso8601(<<word>>)
    ELSE DtStr(<<word>>)

TagExampleForm(form) ==
    /\ Len(form.front) = 5
    /\ type_of(form.front[1]) # "None"
    /\ form.front[3] = "-"
    /\ type_of(form.front[5]) # "None"
    /\ strip(form.act) # <<>>
    /\ Len(form.cat) > 1
    /\ form.tags = TagRun(2)
    /\ form.desc = <<",", " ", "x">>

C16_CategoryTagsDescription ==
    ( /\ parsed.done
      /\ request.source = "typed"
      /\ request.time_hint = "verify_both"
      /\ TagExampleForm(request.form) ) =>
        /\ Succeeded
        /\ parsed.fact_dict.activity = strip(request.form.act)
        /\ parsed.fact_dict.category = Tail(request.form.cat)
        /\ TagSet(parsed.fact_dict.tags) = {TagNames[1], TagNames[2]}
        /\ parsed.fact_dict.description = <<"x">>
        /\ parsed.fact_dict.start = TimeOf(request.form.front[1])
        /\ parsed.fact_dict.end = TimeOf(request.form.front[5])


\* C26: for every factoid, parsing under hint Then or hint Still gives the
\* same start, end, activity, category, tags, description and error as
\* parsing it under hint End.
Compared(answer) ==
    [exc |-> answer.exc, err |-> answer.err,
     start |-> answer.fact_dict.start, end |-> answer.fact_dict.end,
     activity |-> answer.fact_dict.activity,
     category |-> answer.fact_dict.category,
     tags |-> answer.fact_dict.tags,
     description |-> answer.fact_dict.description]

C26_ThenStillLikeEnd ==
    (parsed.done /\ request.time_hint \in {"verify_then", "verify_still"}) =>
        Compared(parsed) =
            Compared(parse_factoid(request.factoid, "verify_end",
                                   request.lenient))

\* C27: whenever a start or end of the parse result was recognised from an
\* absolute date-time text without a time of day, the returned warnings
\* hold the missing-time-of-day warning, on the fast path and on the hard
\* path after a fast-path failure.
FromDateOnly(dt) == dt = parse_datetime_iso8601(<<DateOnly>>)

C27_WarningNeverLost ==
    ( /\ Answered
      /\ \/ FromDateOnly(parsed.fact_dict.start)
         \/ FromDateOnly(parsed.fact_dict.end) ) =>
        \E i \in DOMAIN parsed.fact_dict.warnings :
            parsed.fact_dict.warnings[i] = "missing the time of day"

\* ------------------------------------------------------- manager calls
MaxStoreTime == 2
MaxMinDelta == 2
MaxPk == 1

StoreTimes == 1..MaxStoreTime
SaveFacts ==
    {HFact(pk, start, end) : pk \in {NoneT} \cup (1..MaxPk),
                             start \in StoreTimes,
                             end \in {NoneT} \cup StoreTimes}
EndHints ==
    {Hint("None", 0), Hint("str", 0)}
      \cup {Hint("datetime", t) : t \in StoreTimes}
      \cup {Hint("timedelta", d) : d \in (0 - 1)..1}

\* The store starts empty, with or without an ongoing fact left in the tmp
\* file, under some configured fact_min_delta.
StoreInit ==
    /\ TimelineAtRest
    /\ ParserAtRest
    /\ FormatAtRest
    /\ TagAtRest
    /\ tmp_file \in {NoFile}
         \cup {pickle_dump(HFact(NoneT, start, NoneT)) : start \in StoreTimes}
    /\ backend = {}
    /\ pk_seq = 1
    /\ fact_min_delta \in 0..MaxMinDelta
    /\ op = NoOp

Settle(name, fact, end_hint, now, out) ==
    /\ tmp_file' = out.tmp_file
    /\ backend' = out.backend
    /\ pk_seq' = out.pk_seq
    /\ op' = Op(name, fact, end_hint, now, tmp_file, backend, out)
    /\ UNCHANGED <<fact_min_delta, timeline_vars, parser_vars, format_vars, tag_vars>>

\* Would the call add a fact to the backend under a fresh pk?
Adds(fact) == fact.pk = NoneT /\ fact.end # NoneT

Save(fact, accepts) ==
    /\ Adds(fact) => pk_seq <= MaxPk
    /\ Settle("save", fact, Hint("None", 0), NoneT,
              save(fact, fact_min_delta, tmp_file, backend, pk_seq, accepts))

StartTmpFact(fact) ==
    Settle("_start_tmp_fact", fact, Hint("None", 0), NoneT,
           _start_tmp_fact(fact, tmp_file, backend, pk_seq))

StopTmpFact(end_hint, now, accepts) ==
    /\ pk_seq <= MaxPk
    /\ Settle("stop_tmp_fact", NoFact, end_hint, now,
              stop_tmp_fact(end_hint, now, fact_min_delta, tmp_file, backend,
                            pk_seq, accepts))

GetTmpFact ==
    Settle("get_tmp_fact", NoFact, Hint("None", 0), NoneT,
           get_tmp_fact(tmp_file, backend, pk_seq))

CancelTmpFact ==
    Settle("cancel_tmp_fact", NoFact, Hint("None", 0), NoneT,
           cancel_tmp_fact(tmp_file, backend, pk_seq))

StoreNext ==
    \/ \E fact \in SaveFacts : \E accepts \in BOOLEAN : Save(fact, accepts)
    \/ \E fact \in SaveFacts : StartTmpFact(fact)
    \/ \E end_hint \in EndHints : \E now \in StoreTimes :
           \E accepts \in BOOLEAN : StopTmpFact(end_hint, now, accepts)
    \/ GetTmpFact
    \/ CancelTmpFact

StoreSpec == StoreInit /\ [][StoreNext]_vars


\* -------------------------------------------------------- store claims
Ongoing(file) == _load_tmp_fact(file) # NoFact
ValidHint(end_hint) == end_hint.kind \in {"None", "datetime", "timedelta"}

\* C17: saving a pk-less fact with no end while an ongoing fact is stored
\* raises ValueError and leaves the stored ongoing fact unchanged;
\* _start_tmp_fact given a fact that has an end raises ValueError and
\* stores nothing.
C17_OngoingNotOverwritten ==
    /\ ( /\ op.name = "save"
         /\ op.fact.pk = NoneT
         /\ op.fact.end = NoneT
         /\ Ongoing(op.tmp_before) ) =>
           /\ op.exc = "ValueError"
           /\ tmp_file = op.tmp_before
    /\ (op.name = "_start_tmp_fact" /\ op.fact.end # NoneT) =>
           /\ op.exc = "ValueError"
           /\ tmp_file = op.tmp_before
           /\ backend = op.backend_before

C17_Witness ==
    /\ op.name = "save"
    /\ op.fact.pk = NoneT
    /\ op.fact.end = NoneT
    /\ Ongoing(op.tmp_before)
    /\ op.fact # _load_tmp_fact(op.tmp_before)
    /\ op.called = <<"_start_tmp_fact">>
    /\ op.exc = "ValueError"

\* The stop_tmp_fact call that found an ongoing fact and returned: its
\* start was not after the computed end and the save succeeded.
Stopped == op.name = "stop_tmp_fact" /\ op.exc = "none"

StopPersistsAndClears ==
    Stopped =>
        /\ Ongoing(op.tmp_before)
        /\ op.result \in backend
        /\ op.result.start = _load_tmp_fact(op.tmp_before).start
        /\ op.result.end = computed_end(op.end_hint, op.now)
        /\ \A f \in backend : f = op.result \/ f \in op.backend_before
        /\ ~Ongoing(tmp_file)
        /\ get_tmp_fact(tmp_file, backend, pk_seq).exc = "KeyError"

\* C18 as claimed: stop_tmp_fact on a store holding an ongoing fact (start
\* not after the computed end, save succeeding) persists exactly that fact
\* with end set to the computed end, and afterwards get_tmp_fact raises
\* KeyError; stop_tmp_fact with no ongoing fact raises ValueError and
\* persists nothing.
C18_StopWithoutOngoingIsValueError ==
    /\ StopPersistsAndClears
    /\ (op.name = "stop_tmp_fact" /\ ~Ongoing(op.tmp_before)) =>
           /\ op.exc = "ValueError"
           /\ backend = op.backend_before

\* C18 as amended: the same, where stop_tmp_fact with no ongoing fact
\* raises ValueError when its end_hint is None, a datetime or a timedelta
\* (for any other end_hint it raises TypeError before looking for the
\* ongoing fact); it persists nothing either way.
C18_StopPersistsOrValueError ==
    /\ StopPersistsAndClears
    /\ (op.name = "stop_tmp_fact" /\ ~Ongoing(op.tmp_before)) =>
           /\ ValidHint(op.end_hint) => op.exc = "ValueError"
           /\ ~ValidHint(op.end_hint) => op.exc = "TypeError"
           /\ backend = op.backend_before

C18_Witness ==
    /\ Stopped
    /\ op.end_hint = Hint("timedelta", 1)
    /\ op.result.end > op.result.start
    /\ op.called = <<"_add">>

\* C19: for every fact whose end is set and whose delta is smaller than the
\* configured fact_min_delta, save raises ValueError and calls none of
\* _add, _update or _start_tmp_fact.
C19_MinDeltaEnforced ==
    ( /\ op.name = "save"
      /\ HasDelta(op.fact)
      /\ delta(op.fact) < fact_min_delta ) =>
        /\ op.exc = "ValueError"
        /\ op.called = <<>>



\* C28: every fact that stop_tmp_fact persists has end strictly after
\* start: a computed end before the ongoing fact's start raises ValueError,
\* and no end_hint lets a fact with end <= start reach the backend.
C28_StoppedSpanPositive ==
    ( /\ op.name = "stop_tmp_fact"
      /\ Ongoing(op.tmp_before)
      /\ ValidHint(op.end_hint) ) =>
        LET start == _load_tmp_fact(op.tmp_before).start
            end == computed_end(op.end_hint, op.now)
        IN /\ (end < start) => op.exc = "ValueError"
           /\ (end <= start) => op.called = <<>> /\ backend = op.backend_before
           /\ (op.exc = "none") => op.result.start < op.result.end

\* C29: if stop_tmp_fact raises (the computed end is before start, or save
\* raises), the stored ongoing fact is still present afterwards and
\* unchanged, its end still unset; the ongoing fact is removed only after
\* save has succeeded.
C29_FailedStopKeepsOngoing ==
    /\ (op.name = "stop_tmp_fact" /\ op.exc # "none") =>
          /\ tmp_file = op.tmp_before
          /\ Ongoing(op.tmp_before) => _load_tmp_fact(tmp_file).end = NoneT
    /\ ( /\ op.name = "stop_tmp_fact"
         /\ Ongoing(op.tmp_before)
         /\ ~Ongoing(tmp_file) ) =>
          /\ op.exc = "none"
          /\ op.result \in backend

C29_Witness ==
    /\ op.name = "stop_tmp_fact"
    /\ op.exc = "ValueError"
    /\ op.called = <<"_add">>
    /\ Ongoing(op.tmp_before)
    /\ tmp_file = op.tmp_before
    /\ backend = op.backend_before

\* ---------------------------------------------------- formatting a delta
MaxDeltaMinutes == 61

Styles == {"%M", "%H:%M", "HHhMMm", ""}
Deltas ==
    {NoneDelta}
      \cup {Timedelta(SecondsPerMinute * m + s) :
               m \in 0..MaxDeltaMinutes, s \in {0, 59}}

FormatInit ==
    /\ TimelineAtRest
    /\ ParserAtRest
    /\ StoreAtRest
    /\ TagAtRest
    /\ formatted = NotFormatted

FormatDelta(td, style) ==
    /\ ~formatted.done
    /\ formatted' = [done |-> TRUE, delta |-> td, style |-> style,
                     text |-> format_delta(td, style)]
    /\ UNCHANGED <<timeline_vars, parser_vars, store_vars, tag_vars>>

FormatNext == \E td \in Deltas : \E style \in Styles : FormatDelta(td, style)

FormatSpec == FormatInit /\ [][FormatNext]_vars

\* C20: for every non-negative delta, format_delta with style '%M' returns
\* the whole duration in minutes rounded down, also for an hour or more,
\* and with style '%H:%M' the zero-padded whole hours and the remaining
\* minutes.
C20_WholeMinutes ==
    (formatted.done /\ ~formatted.delta.is_none) =>
        LET seconds == formatted.delta.seconds
        IN /\ formatted.style = "%M" =>
                formatted.text = text_type(seconds \div SecondsPerMinute)
           /\ formatted.style = "%H:%M" =>
                formatted.text =
                    pad2(seconds \div SecondsPerHour, "0") \o <<":">>
                      \o pad2((seconds % SecondsPerHour) \div SecondsPerMinute,
                              "0")

\* ------------------------------------------------------------ tag calls
MaxTagPk == 3

TagNamesStored == {"a", "b", "c"}
SaveTags ==
    {Tag(pk, name) : pk \in {NonePk} \cup (0..MaxTagPk), name \in TagNamesStored}

\* The tags table of a fresh store is empty; the first pk it gives out is 1.
TagInit ==
    /\ TimelineAtRest
    /\ ParserAtRest
    /\ StoreAtRest
    /\ FormatAtRest
    /\ tag_table = {}
    /\ tag_seq = 1
    /\ tag_op = NoTagOp

TagSettle(name, tag, out) ==
    /\ tag_table' = out.table
    /\ tag_seq' = out.seq
    /\ tag_op' = TagOp(name, tag, tag_table, out)
    /\ UNCHANGED <<timeline_vars, parser_vars, store_vars, format_vars>>

TagSave(tag) ==
    /\ tag_seq <= MaxTagPk
    /\ TagSettle("save", tag, tag_save(tag, tag_table, tag_seq))

TagAdd(tag) ==
    /\ tag_seq <= MaxTagPk
    /\ TagSettle("_add", tag, tag_add(tag, tag_table, tag_seq))

TagUpdate(tag) ==
    /\ tag_seq <= MaxTagPk
    /\ TagSettle("_update", tag, tag_update(tag, tag_table, tag_seq))

TagNext ==
    \/ \E tag \in SaveTags \cup {NotATag} : TagSave(tag)
    \/ \E tag \in SaveTags : TagAdd(tag)
    \/ \E tag \in SaveTags : TagUpdate(tag)

TagSpec == TagInit /\ [][TagNext]_vars

\* C30: for every tag whose pk is set, pk = 0 included, save routes to
\* _update and the update is applied to the stored tag of that pk, without
\* the 'no PK' ValueError; _add rejects every tag that already has a pk,
\* pk = 0 included; only a tag with no pk is added.
C30_PkZeroCountsAsSet ==
    /\ ( /\ tag_op.name = "save"
         /\ tag_op.tag.is_tag
         /\ tag_op.tag.pk # NonePk ) =>
           /\ tag_op.called = <<"_update">>
           /\ tag_op.why # "no PK"
           /\ ( /\ \E row \in tag_op.table_before : row.pk = tag_op.tag.pk
                /\ ~NameTaken(tag_op.table_before, tag_op.tag.pk,
                              tag_op.tag.name) ) =>
                  /\ tag_op.exc = "none"
                  /\ Tag(tag_op.tag.pk, tag_op.tag.name) \in tag_table
    /\ (tag_op.name = "_add" /\ tag_op.tag.pk # NonePk) =>
           /\ tag_op.exc = "ValueError"
           /\ tag_table = tag_op.table_before
    /\ ( /\ tag_op.name = "save"
         /\ tag_op.tag.is_tag
         /\ tag_op.tag.pk = NonePk ) =>
           tag_op.called = <<"_add">>


====
